---- MODULE Spec2Model ----
(***************************************************************************)
(* Model of Api/shared/utils/supabase.py: the SupabaseManager singleton    *)
(* (lazy construction in __new__) and its forwarding methods, run by       *)
(* several callers (threads) of one process against a recording SDK.       *)
(***************************************************************************)
EXTENDS Integers, Sequences, FiniteSets, TLC

\* ---------------------------------------------------------------- bounds
\* calls SupabaseManager() made in one run
MaxAccesses == 3

\* the callers (threads) of the process
Threads == {1, 2}
\* every access that finds _instance None creates one object, so at most
\* one handle and one client per access
Handles == 1..MaxAccesses
Clients == 1..MaxAccesses

None == "None"
\* _instance = None (line 21); handles are numbered from 1
NoHandle == 0
\* the attribute `client` is only declared (line 22), unset until line 32
NoClient == 0

\* values os.getenv can give: absent (None), empty, or a non-empty string
UrlValues == {None, "", "https://x.test"}
KeyValues == {None, "", "k"}

\* argument values of the forwarding methods
Emails == {"a@b.com", "c@d.org"}
Passwords == {"pw", "pw2"}
Metadata == {None, "meta"}
Tokens == {"tok1", "tok2"}
Buckets == {"bk1", "bk2"}
Paths == {"f1", "f2"}
Contents == {"bytes"}
ContentTypes == {"text/plain", "image/png"}
Tables == {"tasks", "users"}

\* errors the vendor SDK may raise
SdkErrors == {"AuthApiError", "NetworkError"}

VARIABLES
    SUPABASE_URL,   \* module global, line 14
    SUPABASE_KEY,   \* module global, line 15
    instance,       \* SupabaseManager._instance: None or a handle
    client,         \* client[h]: the attribute `client` of handle h, None while unset
    nHandles,       \* handles created by super().__new__ so far
    nClients,       \* clients returned by create_client so far
    createCalls,    \* calls of create_client so far (returning or raising)
    credReads,      \* evaluations of the credential test of line 26
    configErrors,   \* ValueErrors raised at line 27
    accesses,       \* calls SupabaseManager() begun
    pc,             \* pc[t]: where caller t is inside __new__, or "idle"
    tmp,            \* tmp[t]: the value create_client returned to t, not yet stored
    ret,            \* ret[t]: the handle caller t holds (last one returned to it)
    retClient,      \* retClient[t]: the client attribute of that handle when returned
    outcome,        \* outcome[t]: how t's last call ended
    lastOp          \* the last forwarding method run and what the SDK recorded

vars == <<SUPABASE_URL, SUPABASE_KEY, instance, client, nHandles, nClients,
          createCalls, credReads, configErrors, accesses, pc, tmp, ret,
          retClient, outcome, lastOp>>

\* Python truthiness of Optional[str]: None and "" are falsy
Truthy(s) == s # None /\ s # ""

\* lastOp before any forwarding method has run
NoOp == [by |-> 0, method |-> None, args |-> <<>>, on |-> NoClient, calls |-> <<>>,
         sdk |-> [failAt |-> 0, error |-> None],
         outcome |-> None, result |-> <<>>]

Init ==
    /\ SUPABASE_URL \in UrlValues
    /\ SUPABASE_KEY \in KeyValues
    /\ instance = NoHandle
    /\ client = [h \in Handles |-> NoClient]
    /\ nHandles = 0
    /\ nClients = 0
    /\ createCalls = 0
    /\ credReads = 0
    /\ configErrors = 0
    /\ accesses = 0
    /\ pc = [t \in Threads |-> "idle"]
    /\ tmp = [t \in Threads |-> NoClient]
    /\ ret = [t \in Threads |-> NoHandle]
    /\ retClient = [t \in Threads |-> NoClient]
    /\ outcome = [t \in Threads |-> None]
    /\ lastOp = NoOp

\* ------------------------------------------------- SupabaseManager.__new__

\* variant of line 25 without the test: every access constructs
NewTest_NoCheck(t) ==
    /\ pc[t] = "idle"
    /\ accesses < MaxAccesses
    /\ accesses' = accesses + 1
    /\ pc' = [pc EXCEPT ![t] = "L26"]
    /\ outcome' = [outcome EXCEPT ![t] = None]
    /\ UNCHANGED <<SUPABASE_URL, SUPABASE_KEY, instance, client, nHandles,
                   nClients, createCalls, credReads, configErrors, tmp, ret,
                   retClient, lastOp>>

\* variant of line 25 that keeps the handle but builds a new client at
\* every access
NewTest_Refresh(t) ==
    /\ pc[t] = "idle"
    /\ accesses < MaxAccesses
    /\ accesses' = accesses + 1
    /\ pc' = [pc EXCEPT ![t] = IF instance = NoHandle THEN "L26" ELSE "L32call"]
    /\ outcome' = [outcome EXCEPT ![t] = None]
    /\ UNCHANGED <<SUPABASE_URL, SUPABASE_KEY, instance, client, nHandles,
                   nClients, createCalls, credReads, configErrors, tmp, ret,
                   retClient, lastOp>>

\* line 25: if cls._instance is None
NewTest(t) ==
    /\ pc[t] = "idle"
    /\ accesses < MaxAccesses
    /\ accesses' = accesses + 1
    /\ pc' = [pc EXCEPT ![t] = IF instance = NoHandle THEN "L26" ELSE "L33"]
    /\ outcome' = [outcome EXCEPT ![t] = None]
    /\ UNCHANGED <<SUPABASE_URL, SUPABASE_KEY, instance, client, nHandles,
                   nClients, createCalls, credReads, configErrors, tmp, ret,
                   retClient, lastOp>>

\* variant of line 26 with `and` for `or`
CredsMissing_And(url, key) == ~Truthy(url) /\ ~Truthy(key)

\* line 26: the credential test
CredsMissing(url, key) == ~Truthy(url) \/ ~Truthy(key)

\* variant of lines 26-29 that raises at the first failed test only and lets
\* later accesses fall through to `return cls._instance`
NewCheckCreds_Once(t) ==
    /\ pc[t] = "L26"
    /\ credReads' = credReads + 1
    /\ IF ~Truthy(SUPABASE_URL) \/ ~Truthy(SUPABASE_KEY)
       THEN IF configErrors = 0
            THEN /\ configErrors' = configErrors + 1
                 /\ outcome' = [outcome EXCEPT ![t] = "ValueError"]
                 /\ pc' = [pc EXCEPT ![t] = "idle"]
            ELSE /\ outcome' = [outcome EXCEPT ![t] = "returned"]
                 /\ pc' = [pc EXCEPT ![t] = "idle"]
                 /\ UNCHANGED configErrors
       ELSE /\ pc' = [pc EXCEPT ![t] = "L30"]
            /\ UNCHANGED <<configErrors, outcome>>
    /\ UNCHANGED <<SUPABASE_URL, SUPABASE_KEY, instance, client, nHandles,
                   nClients, createCalls, accesses, tmp, ret, retClient, lastOp>>

\* lines 26-29: raise ValueError when a credential is missing
NewCheckCreds(t) ==
    /\ pc[t] = "L26"
    /\ credReads' = credReads + 1
    /\ IF CredsMissing(SUPABASE_URL, SUPABASE_KEY)
       THEN /\ configErrors' = configErrors + 1
            /\ outcome' = [outcome EXCEPT ![t] = "ValueError"]
            /\ pc' = [pc EXCEPT ![t] = "idle"]
       ELSE /\ pc' = [pc EXCEPT ![t] = "L30"]
            /\ UNCHANGED <<configErrors, outcome>>
    /\ UNCHANGED <<SUPABASE_URL, SUPABASE_KEY, instance, client, nHandles,
                   nClients, createCalls, accesses, tmp, ret, retClient, lastOp>>

\* line 30: cls._instance = super().__new__(cls)
NewStoreInstance(t) ==
    /\ pc[t] = "L30"
    /\ nHandles' = nHandles + 1
    /\ instance' = nHandles + 1
    /\ pc' = [pc EXCEPT ![t] = "L32call"]
    /\ UNCHANGED <<SUPABASE_URL, SUPABASE_KEY, client, nClients, createCalls,
                   credReads, configErrors, accesses, tmp, ret, retClient,
                   outcome, lastOp>>

\* line 32, right-hand side: create_client(SUPABASE_URL, SUPABASE_KEY) returns
NewCreateClient(t) ==
    /\ pc[t] = "L32call"
    /\ createCalls' = createCalls + 1
    /\ nClients' = nClients + 1
    /\ tmp' = [tmp EXCEPT ![t] = nClients + 1]
    /\ pc' = [pc EXCEPT ![t] = "L32store"]
    /\ UNCHANGED <<SUPABASE_URL, SUPABASE_KEY, instance, client, nHandles,
                   credReads, configErrors, accesses, ret, retClient, outcome,
                   lastOp>>

\* line 32, right-hand side: create_client raises; the exception leaves __new__
NewCreateClientRaises(t) ==
    /\ pc[t] = "L32call"
    /\ createCalls' = createCalls + 1
    /\ \E e \in SdkErrors : outcome' = [outcome EXCEPT ![t] = e]
    /\ pc' = [pc EXCEPT ![t] = "idle"]
    /\ UNCHANGED <<SUPABASE_URL, SUPABASE_KEY, instance, client, nHandles,
                   nClients, credReads, configErrors, accesses, tmp, ret,
                   retClient, lastOp>>

\* line 32, the store: cls._instance is loaded after the call returned, and
\* its attribute `client` is set
NewStoreClient(t) ==
    /\ pc[t] = "L32store"
    /\ client' = [client EXCEPT ![instance] = tmp[t]]
    /\ tmp' = [tmp EXCEPT ![t] = NoClient]
    /\ pc' = [pc EXCEPT ![t] = "L33"]
    /\ UNCHANGED <<SUPABASE_URL, SUPABASE_KEY, instance, nHandles, nClients,
                   createCalls, credReads, configErrors, accesses, ret,
                   retClient, outcome, lastOp>>

\* line 33: return cls._instance
NewReturn(t) ==
    /\ pc[t] = "L33"
    /\ ret' = [ret EXCEPT ![t] = instance]
    /\ retClient' = [retClient EXCEPT ![t] = client[instance]]
    /\ outcome' = [outcome EXCEPT ![t] = "returned"]
    /\ pc' = [pc EXCEPT ![t] = "idle"]
    /\ UNCHANGED <<SUPABASE_URL, SUPABASE_KEY, instance, client, nHandles,
                   nClients, createCalls, credReads, configErrors, accesses,
                   tmp, lastOp>>

New(t) ==
    \/ NewTest(t)
    \/ NewCheckCreds(t)
    \/ NewStoreInstance(t)
    \/ NewCreateClient(t)
    \/ NewCreateClientRaises(t)
    \/ NewStoreClient(t)
    \/ NewReturn(t)

\* ------------------------------------------------------ the recording SDK
\* One call on the SDK client as the stub records it: the operation, the
\* positional arguments and the keyword arguments (<<>> when there are none).
Call(op, pos, kw) == [op |-> op, pos |-> pos, kw |-> kw]

\* the canned response of the stub for an operation
CannedResponse(op) == <<"response", op>>

\* what the SDK does during one method: answer every call, or raise `error`
\* at call number failAt
SdkOk == [failAt |-> 0, error |-> None]
SdkBehaviours(calls) ==
    {SdkOk} \cup [failAt : 1..Len(calls), error : SdkErrors]

\* ------------------------------------------- the methods of SupabaseManager
\* Each method is one `return <chain of SDK calls>`; the operators give the
\* chain, in evaluation order, for the arguments of the caller.

\* line 72
table(table_name) ==
    << Call("table", <<table_name>>, <<>>) >>

\* lines 88-90
sign_up(email, password, user_metadata) ==
    << Call("auth.sign_up",
            << [email |-> email, password |-> password,
                options |-> [data |-> user_metadata]] >>, <<>>) >>

\* line 103
sign_in(email, password) ==
    << Call("auth.sign_in_with_password",
            << [email |-> email, password |-> password] >>, <<>>) >>

\* variant of line 115 that hands the token to the SDK
sign_out_PassesToken(access_token) ==
    << Call("auth.sign_out", <<access_token>>, <<>>) >>

\* line 115
sign_out(access_token) ==
    << Call("auth.sign_out", <<>>, <<>>) >>

\* line 127
get_user(access_token) ==
    << Call("auth.get_user", <<>>, [jwt |-> access_token]) >>

\* line 139
refresh_token(token) ==
    << Call("auth.refresh_session", <<>>, [refresh_token |-> token]) >>

\* line 151
create_bucket(bucket_name) ==
    << Call("storage.create_bucket", <<bucket_name>>, <<>>) >>

\* variant of lines 168-172 with bucket and path exchanged
upload_file_Swapped(bucket_name, file_path, file_content, content_type) ==
    << Call("storage.from_", <<file_path>>, <<>>),
       Call("upload",
            <<bucket_name, file_content,
              [k \in {"content-type"} |-> content_type]>>, <<>>) >>

\* lines 168-172
upload_file(bucket_name, file_path, file_content, content_type) ==
    << Call("storage.from_", <<bucket_name>>, <<>>),
       Call("upload",
            <<file_path, file_content,
              [k \in {"content-type"} |-> content_type]>>, <<>>) >>

\* line 185
get_file_url(bucket_name, file_path) ==
    << Call("storage.from_", <<bucket_name>>, <<>>),
       Call("get_public_url", <<file_path>>, <<>>) >>

\* line 198
delete_file(bucket_name, file_path) ==
    << Call("storage.from_", <<bucket_name>>, <<>>),
       Call("remove", << <<file_path>> >>, <<>>) >>

\* variant of the methods that makes a failing call a second time before
\* giving up
Forward_Retry(t, method, args, c, calls, sdk) ==
    LET fails == sdk.failAt \in 1..Len(calls)
    IN  [by      |-> t,
         method  |-> method,
         args    |-> args,
         on      |-> c,
         calls   |-> IF fails
                     THEN Append(SubSeq(calls, 1, sdk.failAt), calls[sdk.failAt])
                     ELSE calls,
         sdk     |-> sdk,
         outcome |-> IF fails THEN sdk.error ELSE "returned",
         result  |-> IF fails THEN <<>>
                     ELSE CannedResponse(calls[Len(calls)].op)]

\* Evaluation of `return <chain>` on the client `c` of the handle: the calls
\* are made in order; an exception raised by a call ends the method and is
\* the method's outcome; otherwise the last call's value is returned.
Forward(t, method, args, c, calls, sdk) ==
    LET fails == sdk.failAt \in 1..Len(calls)
    IN  [by      |-> t,
         method  |-> method,
         args    |-> args,
         on      |-> c,
         calls   |-> IF fails THEN SubSeq(calls, 1, sdk.failAt) ELSE calls,
         sdk     |-> sdk,
         outcome |-> IF fails THEN sdk.error ELSE "returned",
         result  |-> IF fails THEN <<>>
                     ELSE CannedResponse(calls[Len(calls)].op)]

\* self.client on a handle whose attribute was never set: AttributeError
NoClientAttr(t, method, args) ==
    [by |-> t, method |-> method, args |-> args, on |-> NoClient, calls |-> <<>>,
     sdk |-> SdkOk, outcome |-> "AttributeError", result |-> <<>>]

\* variant of the methods that drops the shared handle when the SDK raises
Run_Invalidate(t, method, args, calls) ==
    /\ pc[t] = "idle"
    /\ ret[t] # NoHandle
    /\ IF client[ret[t]] = NoClient
       THEN /\ lastOp' = [by |-> t, method |-> method, args |-> args,
                          on |-> NoClient, calls |-> <<>>,
                          sdk |-> [failAt |-> 0, error |-> None],
                          outcome |-> "AttributeError", result |-> <<>>]
            /\ UNCHANGED instance
       ELSE \E sdk \in SdkBehaviours(calls) :
              LET fails == sdk.failAt \in 1..Len(calls)
              IN  /\ lastOp' =
                        [by |-> t, method |-> method, args |-> args,
                         on |-> client[ret[t]],
                         calls |-> IF fails THEN SubSeq(calls, 1, sdk.failAt)
                                   ELSE calls,
                         sdk |-> sdk,
                         outcome |-> IF fails THEN sdk.error ELSE "returned",
                         result |-> IF fails THEN <<>>
                                    ELSE CannedResponse(calls[Len(calls)].op)]
                  /\ instance' = IF fails THEN NoHandle ELSE instance
    /\ UNCHANGED <<SUPABASE_URL, SUPABASE_KEY, client, nHandles,
                   nClients, createCalls, credReads, configErrors, accesses,
                   pc, tmp, ret, retClient, outcome>>

\* caller t runs a method on the handle it holds
Run(t, method, args, calls) ==
    /\ pc[t] = "idle"
    /\ ret[t] # NoHandle
    /\ IF client[ret[t]] = NoClient
       THEN lastOp' = NoClientAttr(t, method, args)
       ELSE \E sdk \in SdkBehaviours(calls) :
                lastOp' = Forward(t, method, args, client[ret[t]], calls, sdk)
    /\ UNCHANGED <<SUPABASE_URL, SUPABASE_KEY, instance, client, nHandles,
                   nClients, createCalls, credReads, configErrors, accesses,
                   pc, tmp, ret, retClient, outcome>>

\* lines 35-60: get_client, auth and storage return self.client or one of
\* its attributes; no SDK call is made
Accessor(t, method) ==
    /\ pc[t] = "idle"
    /\ ret[t] # NoHandle
    /\ lastOp' = IF client[ret[t]] = NoClient
                 THEN NoClientAttr(t, method, <<>>)
                 ELSE [by |-> t, method |-> method, args |-> <<>>, on |-> client[ret[t]],
                       calls |-> <<>>, sdk |-> SdkOk, outcome |-> "returned",
                       result |-> <<method, client[ret[t]]>>]
    /\ UNCHANGED <<SUPABASE_URL, SUPABASE_KEY, instance, client, nHandles,
                   nClients, createCalls, credReads, configErrors, accesses,
                   pc, tmp, ret, retClient, outcome>>

GetClient(t) == Accessor(t, "get_client")
Auth(t) == Accessor(t, "auth")
Storage(t) == Accessor(t, "storage")

Table(t) ==
    \E n \in Tables : Run(t, "table", <<n>>, table(n))

SignUp(t) ==
    \E e \in Emails, p \in Passwords, m \in Metadata :
        Run(t, "sign_up", <<e, p, m>>, sign_up(e, p, m))

SignIn(t) ==
    \E e \in Emails, p \in Passwords :
        Run(t, "sign_in", <<e, p>>, sign_in(e, p))

SignOut(t) ==
    \E k \in Tokens : Run(t, "sign_out", <<k>>, sign_out(k))

GetUser(t) ==
    \E k \in Tokens : Run(t, "get_user", <<k>>, get_user(k))

RefreshToken(t) ==
    \E k \in Tokens : Run(t, "refresh_token", <<k>>, refresh_token(k))

CreateBucket(t) ==
    \E b \in Buckets : Run(t, "create_bucket", <<b>>, create_bucket(b))

UploadFile(t) ==
    \E b \in Buckets, f \in Paths, x \in Contents, ct \in ContentTypes :
        Run(t, "upload_file", <<b, f, x, ct>>, upload_file(b, f, x, ct))

GetFileUrl(t) ==
    \E b \in Buckets, f \in Paths :
        Run(t, "get_file_url", <<b, f>>, get_file_url(b, f))

DeleteFile(t) ==
    \E b \in Buckets, f \in Paths :
        Run(t, "delete_file", <<b, f>>, delete_file(b, f))

Method(t) ==
    \/ GetClient(t)
    \/ Auth(t)
    \/ Storage(t)
    \/ Table(t)
    \/ SignUp(t)
    \/ SignIn(t)
    \/ SignOut(t)
    \/ GetUser(t)
    \/ RefreshToken(t)
    \/ CreateBucket(t)
    \/ UploadFile(t)
    \/ GetFileUrl(t)
    \/ DeleteFile(t)

\* ---------------------------------------------------------- specifications
\* callers interleave freely, statement by statement
Next == \E t \in Threads : New(t) \/ Method(t)

Spec == Init /\ [][Next]_vars

\* callers take turns: a call runs to its end before another caller starts
Alone(t) == \A u \in Threads \ {t} : pc[u] = "idle"

NextSeq == \E t \in Threads : Alone(t) /\ (New(t) \/ Method(t))

SpecSeq == Init /\ [][NextSeq]_vars

\* ------------------------------------------------------------- properties
Absent(v) == v = None \/ v = ""

\* at least one credential is absent or empty
SomeCredentialAbsent == Absent(SUPABASE_URL) \/ Absent(SUPABASE_KEY)

\* calls SupabaseManager() that have ended (returned or raised)
Ended == accesses - Cardinality({t \in Threads : pc[t] # "idle"})

AllIdle == \A t \in Threads : pc[t] = "idle"

\* C1: when the URL or the key is absent or empty, every access ends with
\* ValueError, create_client is never called, no handle is created or
\* stored, and no caller is ever given a handle: at the first access and at
\* every later one.
C1_MissingCredentialsAlwaysFail ==
    SomeCredentialAbsent =>
        /\ instance = NoHandle
        /\ createCalls = 0
        /\ nHandles = 0
        /\ nClients = 0
        /\ configErrors = Ended
        /\ \A t \in Threads :
              /\ ret[t] = NoHandle
              /\ pc[t] \in {"idle", "L26"}
              /\ outcome[t] \in {None, "ValueError"}

C1_Witness ==
    /\ SomeCredentialAbsent
    /\ ~Absent(SUPABASE_URL)
    /\ AllIdle
    /\ accesses = MaxAccesses
    /\ \A t \in Threads : outcome[t] = "ValueError"

\* C4 as stated: with a credential absent, the number of configuration
\* errors raised over the accesses made is exactly one.
C4_RaisedExactlyOnce ==
    (SomeCredentialAbsent /\ Ended >= 1) => configErrors = 1

\* C4 amended: with a credential absent, the configuration error is raised
\* at every access: the number of configuration errors equals the number of
\* accesses that have ended.
C4_RaisedAtEveryAccess ==
    SomeCredentialAbsent =>
        /\ configErrors = Ended
        /\ credReads = Ended
        /\ \A t \in Threads :
              (pc[t] = "idle" /\ outcome[t] # None) => outcome[t] = "ValueError"

C4_Witness ==
    /\ Absent(SUPABASE_KEY)
    /\ AllIdle
    /\ configErrors = MaxAccesses

\* C2: with a non-empty URL and key and accesses that do not overlap, every
\* access returns the one shared handle: all handles given to callers are
\* the stored one, they carry the same client, and at most one handle and
\* one client were ever created.
C2_SequentialAccessesShareOneHandle ==
    ~SomeCredentialAbsent =>
        /\ nHandles <= 1
        /\ nClients <= 1
        /\ \A t \in Threads :
              ret[t] # NoHandle =>
                  /\ ret[t] = instance
                  /\ retClient[t] = client[instance]
        /\ \A t, u \in Threads :
              (ret[t] # NoHandle /\ ret[u] # NoHandle) =>
                  /\ ret[t] = ret[u]
                  /\ retClient[t] = retClient[u]

C2_Witness ==
    /\ ~SomeCredentialAbsent
    /\ accesses = MaxAccesses
    /\ AllIdle
    /\ \A t \in Threads : ret[t] = 1 /\ retClient[t] = 1 /\ outcome[t] = "returned"

\* the first access has stored the handle and has left the constructing branch
Built == instance # NoHandle /\ \A t \in Threads : pc[t] \in {"idle", "L33"}

\* C3: once the handle has been constructed, every step of a later access
\* leaves the stored handle, the client attribute and the URL and key
\* unchanged, create_client has been called exactly once and is not called
\* again, and the credentials are not tested again.
C3_LaterAccessesChangeNothing ==
    [][Built =>
        /\ instance' = instance
        /\ client' = client
        /\ SUPABASE_URL' = SUPABASE_URL
        /\ SUPABASE_KEY' = SUPABASE_KEY
        /\ createCalls = 1
        /\ createCalls' = 1
        /\ credReads' = credReads
        /\ nHandles' = nHandles
        /\ nClients' = nClients]_vars

C3_Witness ==
    /\ Built
    /\ client[instance] # NoClient
    /\ accesses = MaxAccesses
    /\ AllIdle
    /\ createCalls = 1
    /\ credReads = 1

\* C5 as stated: the first handle stored in _instance wins; a later racing
\* constructor does not replace it.
C5_FirstStoredHandleWins ==
    [][instance # NoHandle => instance' = instance]_vars

\* C10 as stated: a stored handle carries a client whenever no caller is
\* inside the constructor, and every handle returned by SupabaseManager()
\* has its client set at the moment it is returned.
C10_HandleAlwaysHasClient ==
    /\ (AllIdle /\ instance # NoHandle) => client[instance] # NoClient
    /\ \A t \in Threads : ret[t] # NoHandle => retClient[t] # NoClient

\* the stub's record of one call
Recorded(op, pos, kw) == [op |-> op, pos |-> pos, kw |-> kw]

\* the last method was forwarded to a client and came back with a response
Answered(m) ==
    lastOp.method = m /\ lastOp.on # NoClient /\ lastOp.outcome = "returned"

\* C6: each forwarding method that comes back from the stub has made
\* exactly one call of its underlying operation (after the one from_ call
\* that selects the bucket, for the three file methods), the recorded
\* payload holds exactly the caller's arguments, and the value returned is
\* the stub's response to that operation.
C6_ForwardsArgumentsAndResponse ==
    LET a == lastOp.args
        c == lastOp.calls
    IN
    /\ Answered("table") =>
          /\ c = << Recorded("table", <<a[1]>>, <<>>) >>
          /\ lastOp.result = <<"response", "table">>
    /\ Answered("sign_up") =>
          /\ c = << Recorded("auth.sign_up",
                      << [email |-> a[1], password |-> a[2],
                          options |-> [data |-> a[3]]] >>, <<>>) >>
          /\ lastOp.result = <<"response", "auth.sign_up">>
    /\ Answered("sign_in") =>
          /\ c = << Recorded("auth.sign_in_with_password",
                      << [email |-> a[1], password |-> a[2]] >>, <<>>) >>
          /\ lastOp.result = <<"response", "auth.sign_in_with_password">>
    /\ Answered("get_user") =>
          /\ c = << Recorded("auth.get_user", <<>>, [jwt |-> a[1]]) >>
          /\ lastOp.result = <<"response", "auth.get_user">>
    /\ Answered("refresh_token") =>
          /\ c = << Recorded("auth.refresh_session", <<>>,
                             [refresh_token |-> a[1]]) >>
          /\ lastOp.result = <<"response", "auth.refresh_session">>
    /\ Answered("create_bucket") =>
          /\ c = << Recorded("storage.create_bucket", <<a[1]>>, <<>>) >>
          /\ lastOp.result = <<"response", "storage.create_bucket">>
    /\ Answered("upload_file") =>
          /\ Len(c) = 2
          /\ c[1] = Recorded("storage.from_", <<a[1]>>, <<>>)
          /\ c[2].op = "upload"
          /\ Len(c[2].pos) = 3
          /\ c[2].pos[1] = a[2]
          /\ c[2].pos[2] = a[3]
          /\ DOMAIN c[2].pos[3] = {"content-type"}
          /\ c[2].pos[3]["content-type"] = a[4]
          /\ c[2].kw = <<>>
          /\ lastOp.result = <<"response", "upload">>
    /\ Answered("get_file_url") =>
          /\ c = << Recorded("storage.from_", <<a[1]>>, <<>>),
                    Recorded("get_public_url", <<a[2]>>, <<>>) >>
          /\ lastOp.result = <<"response", "get_public_url">>
    /\ Answered("delete_file") =>
          /\ c = << Recorded("storage.from_", <<a[1]>>, <<>>),
                    Recorded("remove", << <<a[2]>> >>, <<>>) >>
          /\ lastOp.result = <<"response", "remove">>

C6_Witness ==
    /\ Answered("upload_file")
    /\ lastOp.args = <<"bk2", "f1", "bytes", "image/png">>
    /\ Len(lastOp.calls) = 2

\* C7: sign_out issues the same call, sign_out with no argument, and gives
\* the same result whatever its token is: the call recorded for the token
\* used is the call any other token would give.  get_user and refresh_token
\* hand their token to the SDK, so another token would give another call.
C7_SignOutIgnoresToken ==
    LET a == lastOp.args
        c == lastOp.calls
    IN
    /\ (lastOp.method = "sign_out" /\ lastOp.on # NoClient) =>
          /\ c = << Recorded("auth.sign_out", <<>>, <<>>) >>
          /\ \A k \in Tokens : sign_out(k) = c
          /\ lastOp.outcome = "returned" =>
                lastOp.result = <<"response", "auth.sign_out">>
    /\ (lastOp.method = "get_user" /\ lastOp.on # NoClient) =>
          /\ c[1].kw.jwt = a[1]
          /\ \A k \in Tokens \ {a[1]} : get_user(k) # c
    /\ (lastOp.method = "refresh_token" /\ lastOp.on # NoClient) =>
          /\ c[1].kw.refresh_token = a[1]
          /\ \A k \in Tokens \ {a[1]} : refresh_token(k) # c

C7_Witness ==
    /\ lastOp.method = "sign_out"
    /\ lastOp.args = <<"tok2">>
    /\ lastOp.on # NoClient
    /\ lastOp.outcome = "returned"

\* a step in which a method was run (lastOp holds calls whose payloads are
\* of several shapes, so the step is told by the fields of one shape)
OpKey(o) == <<o.by, o.method, o.args, o.on, o.sdk.failAt, o.sdk.error, o.outcome>>

\* C8: when the SDK raises during a method, the caller gets that very error,
\* the failing call is the last call made and no call is made twice (no
\* retry), nothing is returned, the step leaves the stored handle, the
\* client attributes and the handles of the callers unchanged, and the next
\* method of the same caller on the same handle is forwarded to the same
\* client.
C8_SdkErrorPropagates ==
    /\ [](lastOp.sdk.failAt > 0 =>
            /\ lastOp.outcome = lastOp.sdk.error
            /\ lastOp.outcome \in SdkErrors
            /\ Len(lastOp.calls) = lastOp.sdk.failAt
            /\ \A i, j \in 1..Len(lastOp.calls) :
                  i # j => lastOp.calls[i].op # lastOp.calls[j].op
            /\ lastOp.result = <<>>)
    /\ [][(lastOp'.sdk.failAt > 0 /\ OpKey(lastOp') # OpKey(lastOp)) =>
            /\ instance' = instance
            /\ client' = client
            /\ ret' = ret
            /\ pc' = pc]_vars
    /\ [][(/\ lastOp.sdk.failAt > 0
           /\ OpKey(lastOp') # OpKey(lastOp)
           /\ lastOp'.by = lastOp.by
           /\ client[ret[lastOp.by]] = lastOp.on) =>
            /\ lastOp'.on = lastOp.on
            /\ lastOp'.outcome # "AttributeError"]_vars

C8_Witness ==
    /\ lastOp.method = "delete_file"
    /\ lastOp.sdk = [failAt |-> 2, error |-> "NetworkError"]
    /\ lastOp.outcome = "NetworkError"
    /\ Len(lastOp.calls) = 2

\* the handle is stored with its client and no caller is in the
\* constructing branch of __new__
Constructed ==
    /\ instance # NoHandle
    /\ client[instance] # NoClient
    /\ \A t \in Threads : pc[t] \in {"idle", "L33"}

====
